---- MODULE Spec2Model ----
(***************************************************************************)
(* playerctl-tui: the player-state synchronisation and command dispatch   *)
(* of src/app.rs, driven by the poll/act/render loop of src/main.rs.      *)
(*                                                                         *)
(* app   the App struct (src/app.rs:5-19), one record field per field     *)
(* bus   the live MPRIS players, in the order find_all() reports them     *)
(* last  what the last loop iteration did on the bus: whether it          *)
(*       enumerated, which handle it resolved, which control call it made *)
(* pc    where main() is: in the loop, returned, failed with an I/O       *)
(*       error, or panicked                                                *)
(*                                                                         *)
(* Durations are whole seconds; volumes are hundredths (1.0 is 100).      *)
(* selected_player is 0-based as in the source; sequences are 1-based.    *)
(***************************************************************************)
EXTENDS Integers, Sequences, FiniteSets, TLC

VARIABLES app, bus, last, pc

vars == <<app, bus, last, pc>>

(* ---------------------------------------------------------------- bounds *)

\* Ticks modelled in the long run (two periodic enumerations) and in the
\* short runs that explore the per-field queries instead.
MaxTicks == 40
ShortTicks == 2
\* Live players on the bus at once in the long run.
MaxPlayers == 2
\* How far outside [0, 100] a player's reported volume ranges.
VolumeOver == 10
\* Ticks modelled in the runs on two players of one identity (one periodic
\* enumeration).
TwinTicks == 20

(* ------------------------------------------------------ program constants *)

TickPeriod == 20
VolumeStep == 5
VolumeMax == 100
VolumeMin == 0
SeekSecs == 5

(* ------------------------------------------------- Result / Option values *)

\* Result<T, E>: the error carries a filler of T's type that no code reads.
Ok(v) == [ok |-> TRUE, v |-> v]
ErrStr == [ok |-> FALSE, v |-> "<err>"]
ErrInt == [ok |-> FALSE, v |-> -1]
ErrBool == [ok |-> FALSE, v |-> TRUE]
ErrSeq == [ok |-> FALSE, v |-> <<>>]

\* Option<T>
Some(v) == [some |-> TRUE, v |-> v]
NoneStr == [some |-> FALSE, v |-> "<none>"]
NoneInt == [some |-> FALSE, v |-> -1]
NoneSeq == [some |-> FALSE, v |-> <<>>]

unwrap_or(r, d) == IF r.ok THEN r.v ELSE d

opt_unwrap_or(o, d) == IF o.some THEN o.v ELSE d

\* Metadata::new(""): a metadata map with no entries
EmptyMetadata ==
  [title |-> NoneStr, artists |-> NoneSeq, album_name |-> NoneStr, length |-> NoneInt]

ErrMeta == [ok |-> FALSE, v |-> EmptyMetadata]

\* a.join(", ")
RECURSIVE join(_)
join(a) ==
  IF a = <<>> THEN ""
  ELSE IF Len(a) = 1 THEN a[1]
  ELSE a[1] \o ", " \o join(Tail(a))

(* ------------------------------------------------------------- App::new *)

\* The struct literal of App::new, before its two refresh calls.
NewApp ==
  [running |-> TRUE,
   player_names |-> <<>>,
   selected_player |-> 0,
   title |-> "",
   artist |-> "",
   album |-> "",
   position |-> 0,
   duration |-> 0,
   playback_status |-> "Stopped",
   volume |-> 0,
   loop_status |-> "None",
   shuffle |-> FALSE,
   tick_count |-> 0]

(* ------------------------------------------------------ the session bus *)

\* How a PlayerFinder lookup ends: find_all() returns the live players, or
\* PlayerFinder::new() or find_all() fails (the callers treat both alike).
Conn == {"ok", "unavailable"}

find_all(c, b) == IF c = "ok" THEN Ok(b) ELSE ErrSeq

\* players.iter().map(|p| p.identity().to_string()).collect()
Identities(ps) == [i \in 1..Len(ps) |-> ps[i].identity]

\* iter().position(|n| n == &x): 0-based index of the first match, or None
first_position(names, x) ==
  IF \E i \in 1..Len(names) : names[i] = x
  THEN Some((CHOOSE i \in 1..Len(names) :
               names[i] = x /\ \A j \in 1..(i - 1) : names[j] # x) - 1)
  ELSE NoneInt

\* player_names.get(selected_player).cloned()
get_name(names, idx) ==
  IF idx < Len(names) THEN Some(names[idx + 1]) ELSE NoneStr

(* ------------------------------------------------------ refresh_players *)

\* refresh_players without its closing bounds check (lines 68-70).
refresh_players_unchecked(a, found) ==
  IF ~found.ok THEN [a EXCEPT !.player_names = <<>>]
  ELSE LET names == Identities(found.v) IN
    IF names = <<>>
    THEN [a EXCEPT !.player_names = <<>>, !.selected_player = 0]
    ELSE LET prev_name == get_name(a.player_names, a.selected_player)
             sel1 == IF prev_name.some
                     THEN opt_unwrap_or(first_position(names, prev_name.v), 0)
                     ELSE a.selected_player
         IN [a EXCEPT !.player_names = names, !.selected_player = sel1]

\* refresh_players keeping the old index instead of following the identity.
refresh_players_by_index(a, found) ==
  IF ~found.ok THEN [a EXCEPT !.player_names = <<>>]
  ELSE LET names == Identities(found.v) IN
    IF names = <<>>
    THEN [a EXCEPT !.player_names = <<>>, !.selected_player = 0]
    ELSE [a EXCEPT !.player_names = names,
                   !.selected_player = IF @ >= Len(names) THEN 0 ELSE @]

refresh_players(a, found) ==
  IF ~found.ok THEN [a EXCEPT !.player_names = <<>>]
  ELSE LET names == Identities(found.v) IN
    IF names = <<>>
    THEN [a EXCEPT !.player_names = <<>>, !.selected_player = 0]
    ELSE LET prev_name == get_name(a.player_names, a.selected_player)
             sel1 == IF prev_name.some
                     THEN opt_unwrap_or(first_position(names, prev_name.v), 0)
                     ELSE a.selected_player
             sel2 == IF sel1 >= Len(names) THEN 0 ELSE sel1
         IN [a EXCEPT !.player_names = names, !.selected_player = sel2]

(* -------------------------------------------------------- refresh_state *)

\* clear_track_info forgetting the transport fields.
clear_track_info_text_only(a) ==
  [a EXCEPT !.title = "", !.artist = "", !.album = "",
            !.position = 0, !.duration = 0]

clear_track_info(a) ==
  [a EXCEPT !.title = "", !.artist = "", !.album = "",
            !.position = 0, !.duration = 0,
            !.playback_status = "Stopped",
            !.volume = 0,
            !.loop_status = "N/A",
            !.shuffle = FALSE]

\* &self.player_names[self.selected_player] panics when the index is out of
\* bounds of a non-empty list.
index_panics(a) ==
  a.player_names # <<>> /\ a.selected_player >= Len(a.player_names)

\* Whether find_current_player goes to the bus at all.
looks_up(a) == a.player_names # <<>> /\ ~index_panics(a)

\* A lookup that keeps the handle of an earlier lookup: it resolves even
\* when the discovery source is unreachable.
find_current_player_cached(a, c, b) ==
  IF a.player_names = <<>> THEN 0
  ELSE LET target == a.player_names[a.selected_player + 1]
           hits == {j \in 1..Len(b) : b[j].identity = target}
       IN IF hits = {} THEN 0 ELSE CHOOSE j \in hits : \A k \in hits : j <= k

\* A lookup that takes the player at the selected index of the live list
\* when it has the selected identity.
find_current_player_by_index(a, c, b) ==
  IF ~looks_up(a) THEN 0
  ELSE LET target == a.player_names[a.selected_player + 1]
           players == find_all(c, b)
       IN IF ~players.ok THEN 0
          ELSE IF /\ a.selected_player < Len(players.v)
                  /\ players.v[a.selected_player + 1].identity = target
               THEN a.selected_player + 1
               ELSE 0

\* The handle as an index into the bus, 0 for None: the first live player
\* whose identity is the selected name.
find_current_player(a, c, b) ==
  IF ~looks_up(a) THEN 0
  ELSE LET target == a.player_names[a.selected_player + 1]
           players == find_all(c, b)
       IN IF ~players.ok THEN 0
          ELSE opt_unwrap_or(
                 LET p == first_position(Identities(players.v), target)
                 IN IF p.some THEN Some(p.v + 1) ELSE NoneInt,
                 0)

playback_status_name(r) ==
  IF r.ok /\ r.v = "Playing" THEN "Playing"
  ELSE IF r.ok /\ r.v = "Paused" THEN "Paused"
  ELSE "Stopped"

loop_status_name(r) ==
  IF ~r.ok THEN "N/A"
  ELSE IF r.v = "None" THEN "Off"
  ELSE IF r.v = "Track" THEN "Track"
  ELSE "Playlist"

\* read_player keeping the old value of a field whose query failed.
read_player_merging(a, player) ==
  LET meta == unwrap_or(player.metadata, EmptyMetadata) IN
  [a EXCEPT !.title = opt_unwrap_or(meta.title, "Unknown"),
            !.artist = IF meta.artists.some THEN join(meta.artists.v) ELSE "Unknown",
            !.album = opt_unwrap_or(meta.album_name, "Unknown"),
            !.duration = opt_unwrap_or(meta.length, 0),
            !.position = unwrap_or(player.position, 0),
            !.playback_status = playback_status_name(player.playback_status),
            !.volume = unwrap_or(player.volume, @),
            !.loop_status = loop_status_name(player.loop_status),
            !.shuffle = unwrap_or(player.shuffle, FALSE)]

\* read_player giving up on the position once the metadata query failed.
read_player_meta_first(a, player) ==
  LET meta == unwrap_or(player.metadata, EmptyMetadata) IN
  [a EXCEPT !.title = opt_unwrap_or(meta.title, "Unknown"),
            !.artist = IF meta.artists.some THEN join(meta.artists.v) ELSE "Unknown",
            !.album = opt_unwrap_or(meta.album_name, "Unknown"),
            !.duration = opt_unwrap_or(meta.length, 0),
            !.position = IF player.metadata.ok THEN unwrap_or(player.position, 0) ELSE 0,
            !.playback_status = playback_status_name(player.playback_status),
            !.volume = unwrap_or(player.volume, 0),
            !.loop_status = loop_status_name(player.loop_status),
            !.shuffle = unwrap_or(player.shuffle, FALSE)]

\* The body of refresh_state once a handle is resolved.
read_player(a, player) ==
  LET meta == unwrap_or(player.metadata, EmptyMetadata) IN
  [a EXCEPT !.title = opt_unwrap_or(meta.title, "Unknown"),
            !.artist = IF meta.artists.some THEN join(meta.artists.v) ELSE "Unknown",
            !.album = opt_unwrap_or(meta.album_name, "Unknown"),
            !.duration = opt_unwrap_or(meta.length, 0),
            !.position = unwrap_or(player.position, 0),
            !.playback_status = playback_status_name(player.playback_status),
            !.volume = unwrap_or(player.volume, 0),
            !.loop_status = loop_status_name(player.loop_status),
            !.shuffle = unwrap_or(player.shuffle, FALSE)]

\* refresh_state forgetting a player that no longer resolves.
refresh_state_dropping(a, c, b) ==
  LET h == find_current_player(a, c, b) IN
  IF h = 0
  THEN [clear_track_info(a) EXCEPT
          !.player_names = IF a.player_names = <<>> THEN <<>>
                           ELSE SubSeq(a.player_names, 1, a.selected_player)
                                  \o SubSeq(a.player_names, a.selected_player + 2,
                                            Len(a.player_names)),
          !.selected_player = 0]
  ELSE read_player(a, b[h])

refresh_state(a, c, b) ==
  LET h == find_current_player(a, c, b) IN
  IF h = 0 THEN clear_track_info(a) ELSE read_player(a, b[h])

(* -------------------------------------------------- command dispatcher *)

\* A control call on a handle; the fields a call does not carry are fillers.
NoReq == [call |-> "none", vol |-> 0, loop |-> "", shuffle |-> FALSE, secs |-> 0]
Plain(c) == [NoReq EXCEPT !.call = c]
SetVolume(v) == [NoReq EXCEPT !.call = "set_volume", !.vol = v]
SetLoopStatus(l) == [NoReq EXCEPT !.call = "set_loop_status", !.loop = l]
SetShuffle(s) == [NoReq EXCEPT !.call = "set_shuffle", !.shuffle = s]
Seek(c, n) == [NoReq EXCEPT !.call = c, !.secs = n]

Min(x, y) == IF x <= y THEN x ELSE y
Max(x, y) == IF x >= y THEN x ELSE y

\* Each command, given the handle it resolved: the call it makes on it.
toggle_play_pause(a, player) == Plain("play_pause")

next_track(a, player) == Plain("next")

prev_track(a, player) == Plain("previous")

\* volume_up without its upper clamp.
volume_up_unclamped(a, player) == SetVolume(a.volume + VolumeStep)

volume_up(a, player) == SetVolume(Min(a.volume + VolumeStep, VolumeMax))

volume_down(a, player) == SetVolume(Max(a.volume - VolumeStep, VolumeMin))

seek_forward(a, player) == Seek("seek_forwards", SeekSecs)

seek_backward(a, player) == Seek("seek_backwards", SeekSecs)

\* cycle_loop going by the loop status of the last refresh.
cycle_loop_from_snapshot(a, player) ==
  IF a.loop_status = "Off" THEN SetLoopStatus("Track")
  ELSE IF a.loop_status = "Track" THEN SetLoopStatus("Playlist")
  ELSE IF a.loop_status = "Playlist" THEN SetLoopStatus("None")
  ELSE NoReq

\* cycle_loop taking an unreadable loop status for Off.
cycle_loop_unreadable_as_off(a, player) ==
  LET cur == unwrap_or(player.loop_status, "None") IN
  IF cur = "None" THEN SetLoopStatus("Track")
  ELSE IF cur = "Track" THEN SetLoopStatus("Playlist")
  ELSE SetLoopStatus("None")

cycle_loop(a, player) ==
  LET cur == player.loop_status IN
  IF ~cur.ok THEN NoReq
  ELSE IF cur.v = "None" THEN SetLoopStatus("Track")
  ELSE IF cur.v = "Track" THEN SetLoopStatus("Playlist")
  ELSE SetLoopStatus("None")

\* toggle_shuffle negating the player's live shuffle state.
toggle_shuffle_live(a, player) == SetShuffle(~unwrap_or(player.shuffle, FALSE))

toggle_shuffle(a, player) == SetShuffle(~a.shuffle)

\* next_index stopping at the last player instead of wrapping.
next_index_no_wrap(a) ==
  IF a.selected_player + 1 >= Len(a.player_names)
  THEN a.selected_player ELSE a.selected_player + 1

next_index(a) == (a.selected_player + 1) % Len(a.player_names)

prev_index(a) ==
  IF a.selected_player = 0 THEN Len(a.player_names) - 1 ELSE a.selected_player - 1

next_player(a, c, b) ==
  IF a.player_names # <<>>
  THEN refresh_state([a EXCEPT !.selected_player = next_index(a)], c, b)
  ELSE a

prev_player(a, c, b) ==
  IF a.player_names # <<>>
  THEN refresh_state([a EXCEPT !.selected_player = prev_index(a)], c, b)
  ELSE a

(* ------------------------------------------------------------------ tick *)

incremented(a) == [a EXCEPT !.tick_count = @ + 1]

\* The periodic check testing the counter before its increment.
enumerates_off_by_one(a) == (a.tick_count - 1) % TickPeriod = 0

\* refresh_players on the 20th tick only.
enumerates_once(a) == a.tick_count = TickPeriod

enumerates(a) == a.tick_count % TickPeriod = 0

\* tick up to its final refresh_state: the counter, then the periodic
\* re-enumeration.
tick_players(a, c, b) ==
  LET a1 == incremented(a) IN
  IF enumerates(a1) THEN refresh_players(a1, find_all(c, b)) ELSE a1

tick(a, c1, c2, b) == refresh_state(tick_players(a, c1, b), c2, b)

(* ---------------------------------------------- the external player side *)

\* What a control call does to the player when the player carries it out.
applied(p, req) ==
  CASE req.call = "play_pause" ->
         IF ~p.playback_status.ok THEN p
         ELSE [p EXCEPT !.playback_status =
                 Ok(IF p.playback_status.v = "Playing" THEN "Paused" ELSE "Playing")]
    [] req.call = "set_volume" -> [p EXCEPT !.volume = Ok(req.vol)]
    [] req.call = "set_loop_status" -> [p EXCEPT !.loop_status = Ok(req.loop)]
    [] req.call = "set_shuffle" -> [p EXCEPT !.shuffle = Ok(req.shuffle)]
    [] req.call = "seek_forwards" ->
         IF ~p.position.ok THEN p
         ELSE [p EXCEPT !.position = Ok(p.position.v + req.secs)]
    [] req.call = "seek_backwards" ->
         IF ~p.position.ok THEN p
         ELSE [p EXCEPT !.position = Ok(Max(p.position.v - req.secs, 0))]
    [] OTHER -> p

\* What a control call on the handle at h leaves on the bus: it may fail,
\* and it succeeds only into the bus contents B that the run explores.
Outcomes(b, h, req, B) ==
  LET done == [b EXCEPT ![h] = applied(b[h], req)] IN
  {[bus |-> b, ok |-> FALSE]}
    \cup (IF done \in B THEN {[bus |-> done, ok |-> TRUE]} ELSE {})

\* All sequences over S of length at most n.
SeqUpTo(S, n) == UNION {[1..k -> S] : k \in 0..n}

(* ------------------------------------------------- the loop's iterations *)

\* The record of an iteration that never went to the bus.
\*   enum       how refresh_players' lookup ended ("skip": it did not run)
\*   prev_name  refresh_players' prev_name, taken before it ran
\*   lookup     how find_current_player's lookup ended
\*   handle     the handle find_current_player returned (0: None)
\*   req, ok    the control call made on the handle, and whether it succeeded
Quiet(op) ==
  [op |-> op, enum |-> "skip", prev_name |-> NoneStr, lookup |-> "skip",
   handle |-> 0, req |-> NoReq, ok |-> FALSE]

Looping == pc = "loop" /\ app.running

\* terminal.draw or poll_event returns an error: main returns it with `?`.
IoError ==
  /\ Looping
  /\ pc' = "error"
  /\ last' = Quiet("io_error")
  /\ UNCHANGED <<app, bus>>

\* q, Esc, Ctrl-C
Quit ==
  /\ Looping
  /\ app' = [app EXCEPT !.running = FALSE]
  /\ pc' = "done"
  /\ last' = Quiet("quit")
  /\ UNCHANGED bus

\* An unmapped key that falls through to the tick.
UnmappedKey_ticking ==
  /\ Looping
  /\ app.tick_count < TickPeriod
  /\ \E c1, c2 \in Conn : app' = tick(app, c1, c2, bus)
  /\ last' = Quiet("unmapped")
  /\ UNCHANGED <<bus, pc>>

UnmappedKey ==
  /\ Looping
  /\ last' = Quiet("unmapped")
  /\ UNCHANGED <<app, bus, pc>>

\* The control call of the &self command named op.
command(op, a, player) ==
  CASE op = "toggle_play_pause" -> toggle_play_pause(a, player)
    [] op = "next_track" -> next_track(a, player)
    [] op = "prev_track" -> prev_track(a, player)
    [] op = "volume_up" -> volume_up(a, player)
    [] op = "volume_down" -> volume_down(a, player)
    [] op = "seek_forward" -> seek_forward(a, player)
    [] op = "seek_backward" -> seek_backward(a, player)
    [] op = "cycle_loop" -> cycle_loop(a, player)
    [] op = "toggle_shuffle" -> toggle_shuffle(a, player)

\* A dispatch that refreshes the snapshot after its control call.
Dispatch_then_refresh(op, B) ==
  /\ Looping
  /\ \E c \in Conn :
       LET h == find_current_player(app, c, bus) IN
       /\ h # 0
       /\ command(op, app, bus[h]) # NoReq
       /\ \E o \in Outcomes(bus, h, command(op, app, bus[h]), B) :
            /\ bus' = o.bus
            /\ app' = refresh_state(app, c, o.bus)
            /\ last' = [Quiet(op) EXCEPT !.lookup = c, !.handle = h,
                          !.req = command(op, app, bus[h]), !.ok = o.ok]
            /\ UNCHANGED pc

\* A command that takes &self: resolve the handle, make one control call,
\* discard its result.
Dispatch(op, B) ==
  /\ Looping
  /\ IF index_panics(app)
     THEN /\ pc' = "panic"
          /\ last' = Quiet(op)
          /\ UNCHANGED <<app, bus>>
     ELSE \E c \in Conn :
       LET h == find_current_player(app, c, bus)
           lk == IF looks_up(app) THEN c ELSE "skip"
       IN IF h = 0
          THEN /\ last' = [Quiet(op) EXCEPT !.lookup = lk]
               /\ UNCHANGED <<app, bus, pc>>
          ELSE LET req == command(op, app, bus[h]) IN
            IF req = NoReq
            THEN /\ last' = [Quiet(op) EXCEPT !.lookup = lk, !.handle = h]
                 /\ UNCHANGED <<app, bus, pc>>
            ELSE \E o \in Outcomes(bus, h, req, B) :
                 /\ bus' = o.bus
                 /\ last' = [Quiet(op) EXCEPT !.lookup = lk, !.handle = h,
                                              !.req = req, !.ok = o.ok]
                 /\ UNCHANGED <<app, pc>>

TogglePlayPause(B) == Dispatch("toggle_play_pause", B)
NextTrack(B) == Dispatch("next_track", B)
PrevTrack(B) == Dispatch("prev_track", B)
VolumeUp(B) == Dispatch("volume_up", B)
VolumeDown(B) == Dispatch("volume_down", B)
SeekForward(B) == Dispatch("seek_forward", B)
SeekBackward(B) == Dispatch("seek_backward", B)
CycleLoop(B) == Dispatch("cycle_loop", B)
ToggleShuffle(B) == Dispatch("toggle_shuffle", B)

\* Tab and BackTab: move the selection and refresh at once.
Switch(op) ==
  /\ Looping
  /\ IF index_panics(app)
     THEN /\ pc' = "panic"
          /\ last' = Quiet(op)
          /\ UNCHANGED <<app, bus>>
     ELSE \E c \in Conn :
       LET moved == IF app.player_names = <<>> THEN app
                    ELSE [app EXCEPT !.selected_player =
                            IF op = "next_player" THEN next_index(app)
                            ELSE prev_index(app)]
       IN /\ app' = (IF op = "next_player" THEN next_player(app, c, bus)
                     ELSE prev_player(app, c, bus))
          /\ last' = IF app.player_names = <<>> THEN Quiet(op)
                     ELSE [Quiet(op) EXCEPT
                             !.lookup = c,
                             !.handle = find_current_player(moved, c, bus)]
          /\ UNCHANGED <<bus, pc>>

NextPlayer == Switch("next_player")
PrevPlayer == Switch("prev_player")

\* poll_event times out, or reads an event that is not a key.
Tick(maxTicks) ==
  /\ Looping
  /\ app.tick_count < maxTicks
  /\ \E c1, c2 \in Conn :
       LET a2 == tick_players(app, c1, bus)
           en == IF enumerates(incremented(app)) THEN c1 ELSE "skip"
           pn == IF enumerates(incremented(app))
                 THEN get_name(app.player_names, app.selected_player)
                 ELSE NoneStr
       IN IF index_panics(a2)
          THEN /\ app' = a2
               /\ pc' = "panic"
               /\ last' = [Quiet("tick") EXCEPT !.enum = en, !.prev_name = pn]
               /\ UNCHANGED bus
          ELSE /\ app' = tick(app, c1, c2, bus)
               /\ last' = [Quiet("tick") EXCEPT
                             !.enum = en,
                             !.prev_name = pn,
                             !.lookup = IF looks_up(a2) THEN c2 ELSE "skip",
                             !.handle = find_current_player(a2, c2, bus)]
               /\ UNCHANGED <<bus, pc>>

\* Players start, exit and change state on their own between iterations.
BusChange(B) ==
  /\ Looping
  /\ bus' \in B \ {bus}
  /\ last' = Quiet("bus")
  /\ UNCHANGED <<app, pc>>

\* main: App::new() on whatever the bus holds, then the loop.
Start(B) ==
  /\ bus \in B
  /\ pc = "loop"
  /\ \E c1, c2 \in Conn :
       LET a1 == refresh_players(NewApp, find_all(c1, bus)) IN
       /\ app = refresh_state(a1, c2, bus)
       /\ last = [Quiet("new") EXCEPT
                    !.enum = c1,
                    !.lookup = IF looks_up(a1) THEN c2 ELSE "skip",
                    !.handle = find_current_player(a1, c2, bus)]

\* handle_key: the match on the key of main.rs.
HandleKey(key, B) ==
  CASE key \in {"Ctrl-c", "q", "Esc"} -> Quit
    [] key = " " -> TogglePlayPause(B)
    [] key = "n" -> NextTrack(B)
    [] key = "p" -> PrevTrack(B)
    [] key \in {"+", "="} -> VolumeUp(B)
    [] key = "-" -> VolumeDown(B)
    [] key = "Left" -> SeekBackward(B)
    [] key = "Right" -> SeekForward(B)
    [] key = "Tab" -> NextPlayer
    [] key = "BackTab" -> PrevPlayer
    [] key = "l" -> CycleLoop(B)
    [] key = "s" -> ToggleShuffle(B)
    [] OTHER -> UnmappedKey

\* poll_event reads a key event.
KeyPress(B, keys) == \E key \in keys : HandleKey(key, B)

Step(B, maxTicks, keys) ==
  \/ Tick(maxTicks)
  \/ KeyPress(B, keys)
  \/ IoError
  \/ BusChange(B)

(* ------------------------------------------------------ explored players *)

\* A player answering every query, and one answering none.
Healthy(id) ==
  [identity |-> id,
   metadata |-> Ok([title |-> Some("Song"), artists |-> Some(<<"Ann", "Bob">>),
                    album_name |-> Some("LP"), length |-> Some(180)]),
   position |-> Ok(42),
   playback_status |-> Ok("Playing"),
   volume |-> Ok(50),
   loop_status |-> Ok("None"),
   shuffle |-> Ok(FALSE)]

Mute(id) ==
  [identity |-> id,
   metadata |-> ErrMeta,
   position |-> ErrInt,
   playback_status |-> ErrStr,
   volume |-> ErrInt,
   loop_status |-> ErrStr,
   shuffle |-> ErrBool]

LoopPlayers == {Healthy("Spotify"), Mute("VLC")}

\* A second player answering every query, with other answers throughout.
Paused(id) ==
  [identity |-> id,
   metadata |-> Ok([title |-> Some("Tune"), artists |-> Some(<<"Cy">>),
                    album_name |-> NoneStr, length |-> NoneInt]),
   position |-> Ok(7),
   playback_status |-> Ok("Paused"),
   volume |-> Ok(80),
   loop_status |-> Ok("Track"),
   shuffle |-> Ok(TRUE)]

Queries ==
  {"metadata", "position", "playback_status", "volume", "loop_status", "shuffle"}

\* Player p with the one query q failing.
Failing(p, q) ==
  [p EXCEPT !.metadata = IF q = "metadata" THEN ErrMeta ELSE @,
            !.position = IF q = "position" THEN ErrInt ELSE @,
            !.playback_status = IF q = "playback_status" THEN ErrStr ELSE @,
            !.volume = IF q = "volume" THEN ErrInt ELSE @,
            !.loop_status = IF q = "loop_status" THEN ErrStr ELSE @,
            !.shuffle = IF q = "shuffle" THEN ErrBool ELSE @]

\* One player at a time: answering everything, failing exactly one query,
\* or failing them all.
FieldPlayers ==
  {Healthy("VLC"), Paused("VLC"), Mute("VLC"),
   [Paused("VLC") EXCEPT !.playback_status = Ok("Stopped"),
                         !.loop_status = Ok("Playlist")]}
    \cup {Failing(Healthy("VLC"), q) : q \in Queries}
    \cup {Failing(Paused("VLC"), q) : q \in Queries}

\* At most one player on the bus, drawn from S.
Solo(S) == {<<>>} \cup {<<p>> : p \in S}

\* One player whose volume ranges over the 0.05 grid, a few values off it,
\* values outside [0.0, 1.0], and an unreadable volume.
ReportedVolumes ==
  {v \in (0 - VolumeOver)..(VolumeMax + VolumeOver) : v % VolumeStep = 0}
    \cup {3, 8, 97, 98}

VolumePlayers ==
  {[Healthy("VLC") EXCEPT !.volume = Ok(v)] : v \in ReportedVolumes}
    \cup {Failing(Healthy("VLC"), "volume")}

\* One player whose loop status and shuffle range over every answer.
LoopModes == {"None", "Track", "Playlist"}

ControlPlayers ==
  {[Healthy("VLC") EXCEPT !.loop_status = l, !.shuffle = s] :
     l \in {Ok(m) : m \in LoopModes} \cup {ErrStr},
     s \in {Ok(TRUE), Ok(FALSE), ErrBool}}

\* Two live players that share the identity "VLC" and answer differently,
\* each with shuffle off or on.
TwinPlayers ==
  {[p EXCEPT !.shuffle = Ok(s)] :
     p \in {Healthy("VLC"), Paused("VLC")}, s \in BOOLEAN}

TwinBuses == {<<>>} \cup {<<p, q>> : p, q \in TwinPlayers}

(* -------------------------------------------------------- specifications *)

\* The long run: up to MaxPlayers players that answer every query or none.
LoopBuses == SeqUpTo(LoopPlayers, MaxPlayers)

Init == Start(LoopBuses)

\* Every key of the match, and one key it does not name.
AllKeys ==
  {"Ctrl-c", "q", "Esc", " ", "n", "p", "+", "=", "-", "Left", "Right",
   "Tab", "BackTab", "l", "s", "x"}

\* The keys that change the App, one command key and one unmapped key.
LoopKeys == {"q", "Tab", "BackTab", " ", "x"}

Next == Step(LoopBuses, MaxTicks, LoopKeys)

Spec == Init /\ [][Next]_vars

\* Short runs on one player, every key, every single query failure.
InitFields == Start(Solo(FieldPlayers))

NextFields == Step(Solo(FieldPlayers), ShortTicks, AllKeys)

SpecFields == InitFields /\ [][NextFields]_vars

\* Short runs on one player, every key, every reported volume.
InitVolume == Start(Solo(VolumePlayers))

NextVolume == Step(Solo(VolumePlayers), ShortTicks, AllKeys)

SpecVolume == InitVolume /\ [][NextVolume]_vars

\* Short runs on one player, the loop and shuffle keys, every loop status
\* and shuffle answer; every set_loop_status and set_shuffle lands in them.
ControlKeys == {"l", "s", "Tab", "q", "x"}

InitControls == Start(Solo(ControlPlayers))

NextControls == Step(Solo(ControlPlayers), ShortTicks, ControlKeys)

SpecControls == InitControls /\ [][NextControls]_vars

\* The loop with no key event: poll_event times out (or reads an event that
\* is not a key) on every iteration, so every iteration that completes is a
\* tick; the loop itself keeps iterating, which is the fairness on Tick.
\* Whether an enumeration reaches the discovery source is the bus's doing
\* and gets no fairness.
IdleBuses == Solo(LoopPlayers)

InitIdle == Start(IdleBuses)

NextIdle ==
  \/ Tick(MaxTicks)
  \/ BusChange(IdleBuses)
  \/ IoError

SpecIdle == InitIdle /\ [][NextIdle]_vars /\ WF_vars(Tick(MaxTicks))

\* Runs up to the first periodic enumeration on two players of one
\* identity; every set_shuffle lands in them.
TwinKeys == {"Tab", "s", "q"}

InitTwins == Start(TwinBuses)

NextTwins == Step(TwinBuses, TwinTicks, TwinKeys)

SpecTwins == InitTwins /\ [][NextTwins]_vars

(* ------------------------------------------------- what a refresh shows *)

\* The documented defaults of the track and playback fields.
Defaulted(a) ==
  /\ a.title = "" /\ a.artist = "" /\ a.album = ""
  /\ a.position = 0 /\ a.duration = 0
  /\ a.playback_status = "Stopped"
  /\ a.volume = 0
  /\ a.loop_status = "N/A"
  /\ a.shuffle = FALSE

\* Each field of a is what its own query on player p answered, or the value
\* that stands for that query's failure.
Shows(a, p) ==
  /\ a.title = (IF p.metadata.ok /\ p.metadata.v.title.some
                THEN p.metadata.v.title.v ELSE "Unknown")
  /\ a.artist = (IF p.metadata.ok /\ p.metadata.v.artists.some
                 THEN join(p.metadata.v.artists.v) ELSE "Unknown")
  /\ a.album = (IF p.metadata.ok /\ p.metadata.v.album_name.some
                THEN p.metadata.v.album_name.v ELSE "Unknown")
  /\ a.duration = (IF p.metadata.ok /\ p.metadata.v.length.some
                   THEN p.metadata.v.length.v ELSE 0)
  /\ a.position = (IF p.position.ok THEN p.position.v ELSE 0)
  /\ a.playback_status = (IF p.playback_status.ok THEN p.playback_status.v ELSE "Stopped")
  /\ a.volume = (IF p.volume.ok THEN p.volume.v ELSE 0)
  /\ a.loop_status = (IF ~p.loop_status.ok THEN "N/A"
                      ELSE IF p.loop_status.v = "None" THEN "Off"
                      ELSE p.loop_status.v)
  /\ a.shuffle = (IF p.shuffle.ok THEN p.shuffle.v ELSE FALSE)

\* a is what a refresh_state that resolved handle h on bus b leaves: h is
\* the first live player named like the selection, or 0 when the lookup
\* failed or no live player has that name.
Refreshed(a, l, b) ==
  /\ l.handle \in 0..Len(b)
  /\ l.handle = 0 => Defaulted(a)
  /\ l.handle > 0 =>
       /\ a.player_names # <<>>
       /\ b[l.handle].identity = a.player_names[a.selected_player + 1]
       /\ \A j \in 1..(l.handle - 1) : b[j].identity # b[l.handle].identity
       /\ Shows(a, b[l.handle])
  /\ (l.lookup = "ok" /\ l.handle = 0) =>
       \A j \in 1..Len(b) : b[j].identity # a.player_names[a.selected_player + 1]

(* ---------------------------------------------------------------- claims *)

\* C1: in every reachable state, a non-empty player_names has
\* 0 <= selected_player < len(player_names), so the indexing in
\* find_current_player never panics.
C1_IndexInBounds ==
  /\ app.player_names # <<>> =>
       (app.selected_player >= 0 /\ app.selected_player < Len(app.player_names))
  /\ pc # "panic"

\* C1 witness: the second periodic enumeration finds players after the list
\* had been emptied (no previous name to go by), and the index is in bounds.
C1_Witness ==
  /\ last.op = "tick" /\ last.enum = "ok" /\ ~last.prev_name.some
  /\ app.tick_count = 2 * TickPeriod
  /\ Len(app.player_names) = 1 /\ app.selected_player = 0

\* C2: an enumeration that finds the discovery source unavailable, or no
\* player, leaves player_names empty and selected_player 0; so
\* selected_player is 0 whenever player_names is empty.
C2_EmptyMeansZero ==
  /\ (/\ last.op \in {"new", "tick"}
      /\ last.enum # "skip"
      /\ (last.enum = "unavailable" \/ bus = <<>>))
       => (app.player_names = <<>> /\ app.selected_player = 0)
  /\ app.player_names = <<>> => app.selected_player = 0

\* C3: an enumeration that succeeds with a non-empty list moves
\* selected_player to the (first) position of the previously selected
\* identity in the new list, and to 0 when that identity is not in it.
C3_SelectionFollowsIdentity ==
  [][(/\ last'.op = "tick" /\ last'.enum = "ok"
      /\ bus' # <<>>
      /\ app.player_names # <<>>
      /\ app.selected_player < Len(app.player_names))
     => LET prev == app.player_names[app.selected_player + 1]
            new == [i \in 1..Len(bus') |-> bus'[i].identity]
            sel == app'.selected_player
        IN /\ app'.player_names = new
           /\ IF \E i \in 1..Len(new) : new[i] = prev
              THEN /\ sel < Len(new)
                   /\ new[sel + 1] = prev
                   /\ \A j \in 1..sel : new[j] # prev
              ELSE sel = 0]_vars

\* C3 witness: "VLC" was selected, the enumeration returned
\* ["Spotify", "VLC"], and the selection is at index 1.
C3_Witness ==
  /\ last.op = "tick" /\ last.enum = "ok"
  /\ last.prev_name = Some("VLC")
  /\ app.player_names = <<"Spotify", "VLC">>
  /\ app.selected_player = 1

\* C4: at the end of a tick that brought tick_count to a multiple of 20 and
\* whose enumeration returned no players, player_names is empty,
\* selected_player is 0 and every track and playback field has its default.
C4_NoPlayersDefaults ==
  (last.op = "tick" /\ last.enum = "ok" /\ bus = <<>>)
    => /\ app.tick_count % 20 = 0
       /\ app.player_names = <<>>
       /\ app.selected_player = 0
       /\ Defaulted(app)

\* C4 witness: such a tick, with a player selected before it.
C4_Witness ==
  /\ last.op = "tick" /\ last.enum = "ok" /\ bus = <<>>
  /\ last.prev_name.some
  /\ app.tick_count = TickPeriod

\* C7: a tick adds exactly one to tick_count, enumerates iff the new count
\* is a multiple of 20, and ends with a refresh_state; nothing else changes
\* tick_count or enumerates, and tick_count never decreases.
C7_TickCounter ==
  [][/\ app'.tick_count >= app.tick_count
     /\ app'.tick_count # app.tick_count => last'.op = "tick"
     /\ last'.op = "tick" =>
          /\ app'.tick_count = app.tick_count + 1
          /\ last'.enum # "skip" <=> app'.tick_count % 20 = 0
          /\ pc' = "loop" /\ Refreshed(app', last', bus')
     /\ last'.op # "tick" => last'.enum = "skip"]_vars

\* C7 witness: the tick that brought the counter to 40 enumerated and then
\* refreshed from a live handle.
C7_Witness ==
  /\ last.op = "tick" /\ last.enum = "ok" /\ last.handle > 0
  /\ app.tick_count = 2 * TickPeriod

\* C10: Tab and BackTab move selected_player circularly and refresh the
\* state for the newly selected player in the same iteration; next undoes
\* prev, len presses of next come back to the start; on an empty list both
\* change nothing.
RECURSIVE PressNext(_, _)
PressNext(a, n) ==
  IF n = 0 THEN a
  ELSE PressNext([a EXCEPT !.selected_player = next_index(a)], n - 1)

C10_RoundTrips ==
  app.player_names # <<>> =>
    /\ prev_index([app EXCEPT !.selected_player = next_index(app)]) = app.selected_player
    /\ next_index([app EXCEPT !.selected_player = prev_index(app)]) = app.selected_player
    /\ PressNext(app, Len(app.player_names)).selected_player = app.selected_player

C10_CircularSwitch ==
  /\ []C10_RoundTrips
  /\ [][last'.op \in {"next_player", "prev_player"} =>
          IF app.player_names = <<>>
          THEN app' = app /\ bus' = bus /\ pc' = pc
          ELSE LET n == Len(app.player_names)
                   i == app.selected_player
               IN /\ app'.player_names = app.player_names
                  /\ app'.tick_count = app.tick_count
                  /\ last'.op = "next_player" =>
                       app'.selected_player = (IF i = n - 1 THEN 0 ELSE i + 1)
                  /\ last'.op = "prev_player" =>
                       app'.selected_player = (IF i = 0 THEN n - 1 ELSE i - 1)
                  /\ Refreshed(app', last', bus')]_vars

\* C10 witness: Tab wrapped from the last player to the first, and the
\* snapshot is the first player's.
C10_Witness ==
  /\ last.op = "next_player"
  /\ app.player_names = <<"VLC", "Spotify">>
  /\ app.selected_player = 0
  /\ last.handle = 1
  /\ app.title = "Unknown"

\* The iterations that end with a refresh_state.
RefreshOps == {"new", "tick", "next_player", "prev_player"}

C6_FieldsIndependent ==
  (last.op \in RefreshOps /\ last.handle > 0)
    => Shows(app, bus[last.handle])

\* C6 witness: only the volume query failed; the volume is 0 and the other
\* fields are the player's.
C6_Witness ==
  /\ last.op = "tick" /\ last.handle > 0
  /\ bus[last.handle] = Failing(Paused("VLC"), "volume")
  /\ app.volume = 0
  /\ app.title = "Tune" /\ app.position = 7 /\ app.playback_status = "Paused"
  /\ app.loop_status = "Track" /\ app.shuffle = TRUE

\* C8: whatever the cached volume, volume_up never requests more than 1.0
\* and volume_down never requests less than 0.0.
C8_VolumeOneSided ==
  /\ (last.op = "volume_up" /\ last.req.call = "set_volume") => last.req.vol <= 100
  /\ (last.op = "volume_down" /\ last.req.call = "set_volume") => last.req.vol >= 0

\* C8 witness: volume_up from a cached volume above 1.0 requested 1.0.
C8_Witness ==
  /\ last.op = "volume_up" /\ last.req.call = "set_volume"
  /\ app.volume > 100
  /\ last.req.vol = 100

\* C9: every set-volume request carries the cached volume moved by one 0.05
\* step and clamped into [0.0, 1.0], and the cached volume itself stays in
\* [0.0, 1.0].
C9_VolumeClamped ==
  /\ last.req.call = "set_volume" =>
       /\ last.req.vol >= 0 /\ last.req.vol <= 100
       /\ last.op = "volume_up" =>
            last.req.vol = Max(0, Min(100, app.volume + 5))
       /\ last.op = "volume_down" =>
            last.req.vol = Max(0, Min(100, app.volume - 5))
  /\ app.volume >= 0 /\ app.volume <= 100

(* --------------------------------------------------------- the commands *)

\* The commands that take &self.
CommandOps ==
  {"toggle_play_pause", "next_track", "prev_track", "volume_up",
   "volume_down", "seek_forward", "seek_backward", "cycle_loop",
   "toggle_shuffle"}

\* C11: the iteration of a command key other than Tab/BackTab, or of an
\* unmapped key, leaves the whole App (snapshot fields, player_names,
\* selected_player, tick_count) as it was and makes at most one control
\* call: the bus is untouched, or differs in the one resolved player by the
\* one recorded request; an unmapped key makes no call.  The snapshot
\* takes up the change only in a later iteration that refreshes.
C11_CommandsLeaveApp ==
  [][last'.op \in CommandOps \cup {"unmapped"} =>
       /\ app' = app
       /\ pc' = pc
       /\ last'.op = "unmapped" => (last'.req = NoReq /\ last'.handle = 0)
       /\ last'.req = NoReq => bus' = bus
       /\ last'.req # NoReq =>
            /\ last'.handle \in 1..Len(bus)
            /\ last'.req = command(last'.op, app, bus[last'.handle])
            /\ bus' = (IF last'.ok
                       THEN [bus EXCEPT ![last'.handle] =
                               applied(bus[last'.handle], last'.req)]
                       ELSE bus)]_vars

\* C11 witness: volume_up took effect on the player, and the snapshot still
\* holds the volume of the last refresh.
C11_Witness ==
  /\ last.op = "volume_up" /\ last.ok
  /\ last.handle = 1
  /\ bus[1].volume = Ok(55)
  /\ app.volume = 50

\* The selection of a names no live player for a lookup that ended lk: the
\* list is empty, the discovery source is unreachable, or no player on bus
\* b has the selected identity.
Unresolved(a, lk, b) ==
  \/ a.player_names = <<>>
  \/ lk = "unavailable"
  \/ \A j \in 1..Len(b) :
       b[j].identity # a.player_names[a.selected_player + 1]

\* C12: a &self command whose selection resolves to no live player (empty
\* list, unreachable discovery source, player gone since the last refresh)
\* makes no call, and such a command or one whose control call fails
\* changes nothing: App, bus and loop position stay as they were, the loop
\* keeps running, and nothing of the request is kept for a retry.
C12_FailedCommandNoEffect ==
  [][(/\ last'.op \in CommandOps
      /\ (Unresolved(app, last'.lookup, bus) \/ ~last'.ok))
     => /\ app' = app /\ bus' = bus
        /\ pc' = "loop" /\ app'.running
        /\ Unresolved(app, last'.lookup, bus) =>
             (last'.handle = 0 /\ last'.req = NoReq)]_vars

\* C12 witness: volume_up was pressed after the selected player had left
\* the bus; the snapshot still shows that player.
C12_Witness ==
  /\ last.op = "volume_up" /\ last.lookup = "ok" /\ last.handle = 0
  /\ bus = <<>>
  /\ app.player_names = <<"VLC">> /\ app.volume = 50
  /\ pc = "loop" /\ app.running

(* ------------------------------------------------------ loop and shuffle *)

\* The successor of a loop mode along None (shown as Off) -> Track ->
\* Playlist -> None.
NextMode(m) ==
  CASE m = "None" -> "Track"
    [] m = "Track" -> "Playlist"
    [] m = "Playlist" -> "None"

\* Player p after a cycle_loop of snapshot a that took effect.
Cycled(a, p) == applied(p, cycle_loop(a, p))

\* C13: for a live player whose loop status reads as one of the three
\* modes, cycle_loop requests that mode's successor along None -> Track ->
\* Playlist -> None, whatever the snapshot holds; the request is one of the
\* three modes and differs from the mode read; three cycle_loop commands
\* taking effect bring the player's loop status back to where it was; and
\* every cycle_loop iteration that takes effect moves the player's loop
\* status by exactly that one step.
C13_CycleTable ==
  \A i \in 1..Len(bus) :
    bus[i].loop_status.ok =>
      LET p == bus[i]
          m == p.loop_status.v
          r == cycle_loop(app, p)
      IN /\ m \in LoopModes
         /\ r = SetLoopStatus(NextMode(m))
         /\ r.loop \in LoopModes \ {m}
         /\ Cycled(app, p).loop_status = Ok(NextMode(m))
         /\ Cycled(app, Cycled(app, p)).loop_status # p.loop_status
         /\ Cycled(app, Cycled(app, Cycled(app, p))).loop_status = p.loop_status

C13_LoopCycle ==
  /\ []C13_CycleTable
  /\ [][(last'.op = "cycle_loop" /\ last'.ok) =>
          LET h == last'.handle IN
          /\ bus[h].loop_status.ok
          /\ last'.req = SetLoopStatus(NextMode(bus[h].loop_status.v))
          /\ bus'[h].loop_status = Ok(NextMode(bus[h].loop_status.v))]_vars

\* C13 witness: a cycle_loop took the player from Playlist back to None
\* while the snapshot, last refreshed two cycles earlier, shows Track.
C13_Witness ==
  /\ last.op = "cycle_loop" /\ last.ok
  /\ last.req = SetLoopStatus("None")
  /\ bus[1].loop_status = Ok("None")
  /\ app.loop_status = "Track"

\* C14: a cycle_loop whose handle resolves but whose get_loop_status fails
\* issues no request at all, and leaves the bus (the player's loop status
\* with it) and the App as they were.
C14_UnreadableLoopNoOp ==
  [][(/\ last'.op = "cycle_loop"
      /\ last'.handle > 0
      /\ ~bus[last'.handle].loop_status.ok)
     => /\ last'.req = NoReq /\ ~last'.ok
        /\ bus' = bus
        /\ app' = app /\ pc' = pc]_vars

\* C14 witness: cycle_loop resolved a player whose loop status cannot be
\* read, after the snapshot had been refreshed from it.
C14_Witness ==
  /\ last.op = "cycle_loop" /\ last.handle = 1
  /\ ~bus[1].loop_status.ok
  /\ last.req = NoReq
  /\ app.loop_status = "N/A" /\ app.title = "Song"

\* Player p after a toggle_shuffle of snapshot a that took effect.
Toggled(a, p) == applied(p, toggle_shuffle(a, p))

\* C15: with the snapshot as the last refresh left it, toggle_shuffle on any
\* live player requests the negation of the snapshot's shuffle, whatever the
\* player's own shuffle state; a second toggle_shuffle before any refresh
\* requests the same value again, and the player after two such calls is
\* the player after one.
C15_TwoToggles ==
  \A i \in 1..Len(bus) :
    LET p == bus[i] IN
    /\ toggle_shuffle(app, p) = SetShuffle(~app.shuffle)
    /\ toggle_shuffle(app, Toggled(app, p)) = toggle_shuffle(app, p)
    /\ Toggled(app, p).shuffle = Ok(~app.shuffle)
    /\ Toggled(app, Toggled(app, p)) = Toggled(app, p)

\* ... and every toggle_shuffle iteration that resolves a handle makes that
\* request; when it follows another toggle_shuffle directly it repeats that
\* one's request, and when both took effect it changes nothing more.
C15_ShuffleFromSnapshot ==
  /\ []C15_TwoToggles
  /\ [][(last'.op = "toggle_shuffle" /\ last'.handle > 0) =>
          /\ last'.req = SetShuffle(~app.shuffle)
          /\ app'.shuffle = app.shuffle
          /\ last'.ok => bus'[last'.handle].shuffle = Ok(~app.shuffle)
          /\ (last.op = "toggle_shuffle" /\ last.handle > 0) =>
               /\ last'.req = last.req
               /\ (last.ok /\ last'.ok /\ last'.handle = last.handle)
                    => bus' = bus]_vars

\* C15 witness: the player's shuffle is already on (a toggle that took
\* effect, or the player itself, turned it on after the last refresh showed
\* it off), and a toggle_shuffle that failed had asked for on once more:
\* the negation of the snapshot, not of the live state.
C15_Witness ==
  /\ last.op = "toggle_shuffle" /\ last.handle = 1 /\ ~last.ok
  /\ last.req = SetShuffle(TRUE)
  /\ bus[1].shuffle = Ok(TRUE)
  /\ app.shuffle = FALSE

(* --------------------------------------------------------- the idle loop *)

\* player_names differs from the identities on the bus, with a periodic
\* enumeration still ahead within the explored ticks.
PlayerSetChanged ==
  /\ Looping
  /\ app.player_names # Identities(bus)
  /\ app.tick_count + TickPeriod <= MaxTicks

LoopEnded == pc # "loop"

C17_RefreshKeepsList ==
  \A c \in Conn :
    LET r == refresh_state(app, c, bus) IN
    index_panics(app) \/
      /\ r.player_names = app.player_names
      /\ r.selected_player = app.selected_player
      /\ r.tick_count = app.tick_count
      /\ r.running = app.running

C17_StaleSelection ==
  /\ []C17_RefreshKeepsList
  /\ [][/\ (last'.op \in RefreshOps /\ last'.enum = "skip") =>
             /\ app'.player_names = app.player_names
             /\ last'.op = "tick" => app'.selected_player = app.selected_player
             /\ last'.handle = 0 => Defaulted(app')
        /\ app'.player_names # app.player_names =>
             /\ last'.op = "tick" /\ last'.enum # "skip"
             /\ app'.tick_count % TickPeriod = 0
        /\ app'.selected_player # app.selected_player =>
             \/ last'.op \in {"next_player", "prev_player"}
             \/ /\ last'.op = "tick" /\ last'.enum # "skip"
                /\ app'.tick_count % TickPeriod = 0]_vars

\* C17 witness: one tick after an enumeration, "VLC" is known and selected
\* but only "Spotify" is live: the lookup succeeded and found no "VLC", the
\* fields are at their defaults and the list still names "VLC".
C17_Witness ==
  /\ last.op = "tick" /\ last.enum = "skip"
  /\ last.lookup = "ok" /\ last.handle = 0
  /\ app.tick_count = TickPeriod + 1
  /\ app.player_names = <<"VLC">> /\ app.selected_player = 0
  /\ Identities(bus) = <<"Spotify">>
  /\ Defaulted(app)

(* ------------------------------------------------------ shared identities *)

\* C18: the handle of every refresh and every command is the first player
\* on the bus whose identity is player_names[selected_player], also when
\* selected_player is the index of a later player of that identity: a
\* refresh shows that first player's answers, and an enumeration that finds
\* the previously selected identity leaves selected_player at its first
\* occurrence.
C18_FirstOfIdentity ==
  /\ last.handle > 0 =>
       /\ last.handle <= Len(bus)
       /\ app.player_names # <<>>
       /\ bus[last.handle].identity = app.player_names[app.selected_player + 1]
       /\ \A j \in 1..(last.handle - 1) :
            bus[j].identity # app.player_names[app.selected_player + 1]
  /\ (last.op \in RefreshOps /\ last.handle > 0) =>
       Shows(app, bus[last.handle])
  /\ (/\ last.op = "tick" /\ last.enum = "ok" /\ last.prev_name.some
      /\ \E i \in 1..Len(app.player_names) :
           app.player_names[i] = last.prev_name.v)
       => /\ app.player_names[app.selected_player + 1] = last.prev_name.v
          /\ \A j \in 1..app.selected_player :
               app.player_names[j] # last.prev_name.v

\* ... and a command that takes effect changes that first player alone.
C18_FirstPlayerServes ==
  /\ []C18_FirstOfIdentity
  /\ [][(last'.op \in CommandOps /\ last'.ok) =>
          /\ last'.handle \in 1..Len(bus)
          /\ bus[last'.handle].identity = app.player_names[app.selected_player + 1]
          /\ \A j \in 1..(last'.handle - 1) :
               bus[j].identity # bus[last'.handle].identity
          /\ bus' = [bus EXCEPT ![last'.handle] =
                       applied(bus[last'.handle], last'.req)]]_vars

\* C18 witness: of two live players called "VLC" the second is selected;
\* the snapshot is the first one's, and toggle_shuffle turned shuffle on in
\* the first while the second still has it off.
C18_Witness ==
  /\ app.player_names = <<"VLC", "VLC">> /\ app.selected_player = 1
  /\ last.op = "toggle_shuffle" /\ last.ok /\ last.handle = 1
  /\ app.title = "Song" /\ app.shuffle = FALSE
  /\ bus[1] = [Healthy("VLC") EXCEPT !.shuffle = Ok(TRUE)]
  /\ bus[2] = [Paused("VLC") EXCEPT !.shuffle = Ok(FALSE)]

(* ---------------------------------------------------------- keys and ticks *)

\* What handle_key can record of an iteration.
KeyOps == CommandOps \cup {"unmapped", "quit", "next_player", "prev_player"}

\* C19: an iteration that handles a key, mapped or not, is not a tick: it
\* leaves tick_count and player_names alone and enumerates nothing, and
\* unless the key is Tab or BackTab it refreshes nothing (the snapshot and
\* the selection stay as they were); tick_count advances and players are
\* enumerated on tick iterations only.  So a run of such keys, however
\* long, keeps tick_count, player list and snapshot where they were.
C19_KeysDoNotTick ==
  [][/\ last'.op \in KeyOps =>
          /\ app'.tick_count = app.tick_count
          /\ app'.player_names = app.player_names
          /\ last'.enum = "skip"
     /\ last'.op \in KeyOps \ {"next_player", "prev_player"} =>
          app' = [app EXCEPT !.running = app'.running]
     /\ (app'.tick_count # app.tick_count \/ last'.enum # "skip") =>
          last'.op = "tick"]_vars

\* C19 witness: an unmapped key used up an iteration while the snapshot,
\* last refreshed by the first tick, shows a volume the player no longer
\* has.
C19_Witness ==
  /\ last.op = "unmapped"
  /\ app.tick_count = 1
  /\ app.volume = 50
  /\ bus # <<>> /\ bus[1].volume = Ok(45)

(* ------------------------------------------------------------ termination *)

\* The part of C20 about the flag: only a quit key changes running, it
\* changes it to false, nothing happens once it is false, and the quit
\* iteration neither ticks, refreshes nor dispatches.
C20_RunningOnlyByQuit ==
  [][/\ app.running
     /\ app'.running # app.running => (last'.op = "quit" /\ ~app'.running)
     /\ last'.op = "quit" =>
          /\ app' = [app EXCEPT !.running = FALSE]
          /\ bus' = bus
          /\ pc' = "done"
          /\ last' = Quiet("quit")]_vars

\* The part of C20 about the loop: it has ended only if a quit key was
\* handled and running is false.
C20_EndsOnlyOnQuit ==
  pc # "loop" => (last.op = "quit" /\ ~app.running)

\* C20: the loop ends exactly on a quit key (q, Esc, Ctrl-C), which sets
\* running to false with no further tick, refresh or dispatch; nothing else
\* sets running to false or ends the loop, and running never becomes true
\* again.
C20_TerminatesExactlyOnQuit ==
  /\ []C20_EndsOnlyOnQuit
  /\ [](~app.running => pc = "done")
  /\ C20_RunningOnlyByQuit

====
